---- MODULE Spec2Model ----
(***************************************************************************)
(* Model of usappointment.js: the run supervisor (runLogic), the session   *)
(* workflow (runPuppeteerLogic), the element locator (waitForSelectors,    *)
(* waitForSelector), the visibility guarantor (scrollIntoViewIfNeeded),    *)
(* the condition poller (waitForFunction) and the notifier (notify).       *)
(*                                                                         *)
(* One action is one turn of the event loop: the settling of the await the *)
(* workflow is suspended on, or a timer callback, together with all the    *)
(* synchronous code and microtasks that follow it up to the next await.    *)
(***************************************************************************)
EXTENDS Integers, Sequences, FiniteSets, TLC

\* Longest slot list the data query answers with in the model.
MaxSlots == 2

VARIABLES
  argD,            \* args.d: the threshold date argument, possibly absent
  userToken,       \* args.n is a non-empty string
  sup,             \* position of runLogic / the process
  timer,           \* the 60 s timer of timeoutPromise
  race,            \* which side settled Promise.race
  errorLog,        \* the error written by console.error (or by the runtime)
  browser,         \* "none" before puppeteer.launch resolved, then "open"/"closed"
  closeCalls,      \* number of browser.close() invocations
  wf,              \* position of runPuppeteerLogic
  wfResult,        \* "running", "fulfilled" or "rejected"
  step,            \* index of the current element interaction block (0 = none)
  op,              \* the interaction call awaited inside the block
  trace,           \* the awaited calls of the workflow that completed, in order
  dom,             \* selector parts the page resolves within the timeout
  selIdx,          \* waitForSelectors: index of the strategy being awaited
  attempted,       \* waitForSelectors: indices of strategies tried so far
  elapsed,         \* strategies whose lookup ran into its timeout
  element,         \* the handle returned by waitForSelectors ("" = none)
  isActive,        \* waitForFunction: the flag cleared by its timer
  inFlight,        \* waitForFunction: predicate invocations not yet settled
  pollResult,      \* waitForFunction: value of the last settled invocation
  pollOutcome,     \* "none", "ok" (returned) or "timedout" (threw)
  sawAttached,     \* an isConnected read of this handle yielded true
  scrolls,         \* scrollIntoView requests made for the current handle
  intersects,      \* result of the first isIntersectingViewport of the handle
  availableDates,  \* response.data of the data query
  queryCount,      \* number of axios.get requests issued
  compared,        \* firstDate < currentDate was evaluated
  decision,        \* branch taken after the query
  notifyCalls,     \* calls of notify
  pushCount,       \* axios.post requests issued
  pushResult,      \* "none", "pending", "ok", "failed"
  notifyLogs,      \* log lines written by notify
  notifyMsg        \* the calendar date in the message passed to notify

supVars   == <<sup, timer, race, errorLog>>
brVars    == <<browser, closeCalls>>
wfVars    == <<wf, wfResult, step, op, trace>>
locVars   == <<dom, selIdx, attempted, elapsed, element>>
pollVars  == <<isActive, inFlight, pollResult, pollOutcome, sawAttached, scrolls, intersects>>
queryVars == <<availableDates, queryCount, compared, decision>>
notVars   == <<notifyCalls, pushCount, pushResult, notifyLogs, notifyMsg>>
vars == <<argD, userToken, supVars, brVars, wfVars, locVars, pollVars, queryVars, notVars>>

-----------------------------------------------------------------------------
(* Dates *)

IsoDate(y, m, d) == [y |-> y, m |-> m, d |-> d]

\* The ISO date strings the portal and the caller use in the model.
Dates == { IsoDate(2022, 5, 1), IsoDate(2022, 6, 22), IsoDate(2022, 7, 1) }

IsLeap(y) == (y % 4 = 0 /\ y % 100 # 0) \/ y % 400 = 0

LeapDaysBefore(y) == ((y - 1) \div 4) - ((y - 1) \div 100) + ((y - 1) \div 400)

DaysBeforeMonth(y, m) ==
  <<0, 31, 59, 90, 120, 151, 181, 212, 243, 273, 304, 334>>[m]
    + (IF m > 2 /\ IsLeap(y) THEN 1 ELSE 0)

\* new Date(x): the time value of a date-only ISO string is UTC midnight of
\* that day; of undefined it is NaN.  The time value is kept in seconds.
NewDate(x) ==
  IF ~x.given
    THEN [nan |-> TRUE, t |-> 0]
    ELSE [nan |-> FALSE,
          t |-> (365 * (x.date.y - 1970) + LeapDaysBefore(x.date.y) - LeapDaysBefore(1970)
                 + DaysBeforeMonth(x.date.y, x.date.m) + (x.date.d - 1)) * 86400]

\* a < b on two Date objects: a comparison with NaN is false.
DateLess(a, b) == ~a.nan /\ ~b.nan /\ a.t < b.t

Given(d) == [given |-> TRUE, date |-> d]
Undefined == [given |-> FALSE, date |-> IsoDate(1970, 1, 1)]

\* No date (of a message that was never built).
NoDate == IsoDate(0, 0, 0)

\* Offsets from UTC, in hours, of the time zones the script is run in.
LocalOffsets == {-4, 0}

DaysInMonth(y, m) ==
  IF m = 12 THEN 31 ELSE DaysBeforeMonth(y, m + 1) - DaysBeforeMonth(y, m)

\* The calendar days of the year the model's dates lie in.
Calendar ==
  { c \in { IsoDate(2022, m, d) : m \in 1..12, d \in 1..31 } : c.d <= DaysInMonth(c.y, c.m) }

\* date.toDateString(): the calendar day of the time value in local time,
\* offset hours from UTC.
ToDateString(date, offset) ==
  LET day == (date.t + offset * 3600) \div 86400
  IN  CHOOSE c \in Calendar : NewDate([given |-> TRUE, date |-> c]).t = day * 86400

ArgDValues == { Given(d) : d \in Dates } \cup { Undefined }

RECURSIVE SeqsUpTo(_, _)
SeqsUpTo(S, n) ==
  IF n = 0 THEN { <<>> }
  ELSE LET shorter == SeqsUpTo(S, n - 1)
       IN  shorter \cup { Append(s, x) : s \in shorter, x \in S }

\* The bodies the slot-listing endpoint can answer with: objects with a date field.
SlotSeqs == SeqsUpTo({ [date |-> d] : d \in Dates }, MaxSlots)

-----------------------------------------------------------------------------
(* Errors *)

NoError == [kind |-> "none", selectors |-> <<>>]
Err(k) == [kind |-> k, selectors |-> <<>>]
ScriptTimedOut == Err("ScriptTimedOut")

-----------------------------------------------------------------------------
(* Element locator *)

\* The selector strategy sets of the five interaction blocks.
Selectors(k) ==
  CASE k = 1 -> << <<"aria/Email *">>, <<"#user_email">> >>
    [] k = 2 -> << <<"aria/Email *">>, <<"#user_email">> >>
    [] k = 3 -> << <<"aria/Password">>, <<"#user_password">> >>
    [] k = 4 -> << <<"#sign_in_form > div.radio-checkbox-group.margin-top-30 > label > div">> >>
    [] k = 5 -> << <<"aria/Sign In[role=button]">>, <<"#new_user > p:nth-child(9) > input">> >>
    [] OTHER -> << >>

Parts(k) == UNION { { Selectors(k)[i][j] : j \in 1..Len(Selectors(k)[i]) } : i \in 1..Len(Selectors(k)) }

\* The loop of waitForSelector over the parts of one strategy, from part i on,
\* with el the handle resolved so far ("" = null).  A lookup of a part the page
\* does not show within options.timeout rejects with puppeteer's TimeoutError.
RECURSIVE ResolveParts(_, _, _, _)
ResolveParts(selector, i, el, d) ==
  IF i > Len(selector)
    THEN IF el = "" THEN [ok |-> FALSE, element |-> "", error |-> "CouldNotFind"]
                    ELSE [ok |-> TRUE, element |-> el, error |-> ""]
    ELSE IF selector[i] \notin d
           THEN [ok |-> FALSE, element |-> "", error |-> "TimeoutError"]
           ELSE ResolveParts(selector, i + 1, selector[i], d)

WaitForSelector(selector, d) ==
  IF Len(selector) = 0
    THEN [ok |-> FALSE, element |-> "", error |-> "EmptySelector"]
    ELSE ResolveParts(selector, 1, "", d)

-----------------------------------------------------------------------------
(* Condition poller *)

\* JavaScript values a predicate yields: a boolean, or an object (a JSHandle
\* wrapping the remote value).
Bool(b) == [type |-> "boolean", value |-> b]
JSHandle(b) == [type |-> "object", value |-> b]
NoValue == [type |-> "undefined", value |-> FALSE]

\* if (result): every object is truthy, a boolean is truthy when true.
Truthy(v) == v.type = "object" \/ (v.type = "boolean" /\ v.value)

\* What one invocation of the predicate can yield.
\* waitForConnected: element.getProperty('isConnected') resolves to a JSHandle.
\* waitForInViewport: element.isIntersectingViewport resolves to a boolean.
PredicateValues(phase) ==
  IF phase = "connected" THEN { JSHandle(b) : b \in BOOLEAN }
                         ELSE { Bool(b) : b \in BOOLEAN }

-----------------------------------------------------------------------------
(* Decision *)

\* Decide without the empty-response branch.
DecideNoEmptyBranch(dates, currentDate) ==
  IF Len(dates) > 0 /\ DateLess(NewDate(Given(dates[1].date)), currentDate)
    THEN "ScheduledEarlierFound"
    ELSE "NoEarlierAvailable"

\* The branch taken on response.data.
Decide(dates, currentDate) ==
  IF Len(dates) <= 0 THEN "NoSlotsAtAll"
  ELSE IF DateLess(NewDate(Given(dates[1].date)), currentDate)
         THEN "ScheduledEarlierFound"
         ELSE "NoEarlierAvailable"

-----------------------------------------------------------------------------
(* Control of the loops, as the code decides it *)

\* LocatorNext without the return of a resolved handle: the loop goes on.
LocatorNextNoReturn(n, i, ok) ==
  IF i < n THEN "next" ELSE IF ok THEN "return" ELSE "throw"

\* LocatorNext without the catch: the first failing strategy ends the search.
LocatorNextNoCatch(n, i, ok) ==
  IF ok THEN "return" ELSE "throw"

\* waitForSelectors, after the attempt of strategy i of n settled: a resolved
\* strategy is returned, a failed one is swallowed and the next one is tried,
\* and the error is thrown after the last one.
LocatorNext(n, i, ok) ==
  IF ok THEN "return" ELSE IF i < n THEN "next" ELSE "throw"

\* PollAfterResult of a poller that tests the deadline before the result.
PollAfterResultDeadlineFirst(result) ==
  IF isActive /\ Truthy(result) THEN "return" ELSE "sleep"

\* waitForFunction, after an invocation of fn settled with result.
PollAfterResult(result) == IF Truthy(result) THEN "return" ELSE "sleep"

\* PollLoopTest of a poller that gives up after the first falsy result.
PollLoopTestOnce(active) == "throw"

\* waitForFunction, the test of the while loop.
PollLoopTest(active) == IF active THEN "invoke" ELSE "throw"

\* AfterViewportCheck of a guarantor that scrolls whatever the check says.
AfterViewportCheckAlwaysScroll(isInViewport) == "scroll"

\* scrollIntoViewIfNeeded, after isIntersectingViewport resolved.
AfterViewportCheck(isInViewport) == IF isInViewport THEN "return" ELSE "scroll"

\* The input categories element.type(...) is used for.
Typeable ==
  {"textarea", "select-one", "text", "url", "tel", "search", "password", "number", "email"}

\* Values of el.type the page can report.
InputTypes == {"email", "password", "checkbox"}

\* The first call awaited on the handle in interaction block k.
FirstOp(k) == IF k \in {2, 3} THEN "evaluateType" ELSE "click"

\* NextOp without the wait for the navigation that follows the login click.
NextOpNoNavigationWait(k, o, t) ==
  CASE o = "evaluateType" -> IF t \in Typeable THEN "type" ELSE "focus"
    [] o = "focus" -> "setValue"
    [] o \in {"type", "setValue"} -> IF k = 2 THEN "keyDown" ELSE ""
    [] o = "keyDown" -> "keyUp"
    [] OTHER -> ""

\* The call awaited after call o of block k settled ("" = the block is done);
\* t is the value el.type evaluated to.
NextOp(k, o, t) ==
  CASE o = "evaluateType" -> IF t \in Typeable THEN "type" ELSE "focus"
    [] o = "focus" -> "setValue"
    [] o \in {"type", "setValue"} -> IF k = 2 THEN "keyDown" ELSE ""
    [] o = "keyDown" -> "keyUp"
    [] o = "click" -> IF k = 5 THEN "waitForNavigation" ELSE ""
    [] OTHER -> ""

LastBlock == 5

-----------------------------------------------------------------------------
(* State machine *)

Init ==
  /\ argD \in ArgDValues
  /\ userToken \in BOOLEAN
  /\ sup = "launch"
  /\ timer = "pending"
  /\ race = "none"
  /\ errorLog = NoError
  /\ browser = "none"
  /\ closeCalls = 0
  /\ wf = "idle"
  /\ wfResult = "running"
  /\ step = 0
  /\ op = ""
  /\ trace = <<>>
  /\ dom = {}
  /\ selIdx = 0
  /\ attempted = <<>>
  /\ elapsed = {}
  /\ element = ""
  /\ isActive = FALSE
  /\ inFlight = 0
  /\ pollResult = NoValue
  /\ pollOutcome = "none"
  /\ sawAttached = FALSE
  /\ scrolls = 0
  /\ intersects = "unknown"
  /\ availableDates = <<>>
  /\ queryCount = 0
  /\ compared = FALSE
  /\ decision = "none"
  /\ notifyCalls = 0
  /\ pushCount = 0
  /\ pushResult = "none"
  /\ notifyLogs = 0
  /\ notifyMsg = NoDate

\* The workflow is suspended on an await and the process is waiting on the race.
Running == sup = "racing" /\ wfResult = "running"

\* WorkflowFulfils under a supervisor that keeps waiting for the timer as well
\* (Promise.all in place of Promise.race).
WorkflowFulfilsAll ==
  /\ wfResult' = "fulfilled"
  /\ wf' = "ended"
  /\ UNCHANGED <<race, sup, timer, errorLog>>

\* runPuppeteerLogic returns: Promise.race resolves, the try block ends.
WorkflowFulfils ==
  /\ wfResult' = "fulfilled"
  /\ wf' = "ended"
  /\ race' = "workflow"
  /\ sup' = "done"
  /\ UNCHANGED <<timer, errorLog>>

\* WorkflowRejects with a catch block that does not log.
WorkflowRejectsUnlogged(e) ==
  /\ wfResult' = "rejected"
  /\ wf' = "ended"
  /\ race' = "workflow"
  /\ sup' = "done"
  /\ UNCHANGED <<timer, errorLog>>

\* runPuppeteerLogic throws e: Promise.race rejects, the catch block logs e.
WorkflowRejects(e) ==
  /\ wfResult' = "rejected"
  /\ wf' = "ended"
  /\ race' = "workflow"
  /\ errorLog' = e
  /\ sup' = "done"
  /\ UNCHANGED timer

\* The workflow goes on to its next await.
Continue(next) ==
  /\ wf' = next
  /\ UNCHANGED <<wfResult, supVars>>

\* waitForSelectors is called for block k on a page that resolves the parts d.
BeginLocate(k, d) ==
  /\ step' = k
  /\ op' = ""
  /\ dom' = d
  /\ selIdx' = 1
  /\ attempted' = <<>>
  /\ elapsed' = {}
  /\ element' = ""

\* waitForFunction is called: the flag is set, the timer armed, fn invoked.
BeginPoll ==
  /\ isActive' = TRUE
  /\ inFlight' = 1
  /\ pollResult' = NoValue
  /\ pollOutcome' = "none"

\* browser.close() is invoked.
InvokeClose ==
  /\ closeCalls' = closeCalls + 1
  /\ browser' = "closed"

(* Run supervisor *)

\* await puppeteer.launch() settles.
LaunchSettles ==
  /\ sup = "launch"
  /\ \E ok \in BOOLEAN :
       IF ok
         THEN /\ sup' = "userAgent"
              /\ browser' = "open"
              /\ UNCHANGED <<timer, race, errorLog>>
         ELSE /\ sup' = "done"
              /\ errorLog' = Err("LaunchFailed")
              /\ UNCHANGED <<timer, race, browser>>
  /\ UNCHANGED <<argD, userToken, closeCalls, wfVars, locVars, pollVars, queryVars, notVars>>

\* await browser.userAgent() settles.
UserAgentSettles ==
  /\ sup = "userAgent"
  /\ \E ok \in BOOLEAN :
       IF ok
         THEN /\ sup' = "newPage"
              /\ UNCHANGED errorLog
         ELSE /\ sup' = "done"
              /\ errorLog' = Err("ProtocolError")
  /\ UNCHANGED <<argD, userToken, timer, race, brVars, wfVars, locVars, pollVars, queryVars, notVars>>

\* await browser.newPage() settles; on success the default timeouts are set,
\* runPuppeteerLogic is called and runs up to its first await (setViewport),
\* and Promise.race is awaited.  A timeoutPromise that is already rejected
\* settles the race at once.
NewPageSettles ==
  /\ sup = "newPage"
  /\ \E ok \in BOOLEAN :
       IF ok
         THEN /\ wf' = "setViewport"
              /\ IF timer = "fired"
                   THEN /\ race' = "timer"
                        /\ errorLog' = ScriptTimedOut
                        /\ sup' = "done"
                   ELSE /\ race' = "pending"
                        /\ sup' = "racing"
                        /\ UNCHANGED errorLog
         ELSE /\ sup' = "done"
              /\ errorLog' = Err("ProtocolError")
              /\ UNCHANGED <<wf, race>>
  /\ UNCHANGED <<argD, userToken, timer, brVars, wfResult, step, op, trace, locVars, pollVars, queryVars, notVars>>

\* TimerFiresInRace with a catch block that releases the browser session.
TimerFiresThenCloses ==
  /\ sup = "racing"
  /\ timer = "pending"
  /\ timer' = "fired"
  /\ race' = "timer"
  /\ errorLog' = ScriptTimedOut
  /\ sup' = "done"
  /\ closeCalls' = closeCalls + 1
  /\ browser' = "closed"
  /\ UNCHANGED <<argD, userToken, wfVars, locVars, pollVars, queryVars, notVars>>

\* TimerFiresInRace with a timer callback that does not reject timeoutPromise.
TimerFiresNoReject ==
  /\ sup = "racing"
  /\ timer = "pending"
  /\ timer' = "fired"
  /\ UNCHANGED <<argD, userToken, sup, race, errorLog, brVars, wfVars, locVars, pollVars, queryVars, notVars>>

\* The 60 s timer fires while Promise.race is awaited: the race rejects,
\* the catch block logs the error and runLogic returns.
TimerFiresInRace ==
  /\ sup = "racing"
  /\ timer = "pending"
  /\ timer' = "fired"
  /\ race' = "timer"
  /\ errorLog' = ScriptTimedOut
  /\ sup' = "done"
  /\ UNCHANGED <<argD, userToken, brVars, wfVars, locVars, pollVars, queryVars, notVars>>

\* The 60 s timer fires before Promise.race is reached: timeoutPromise is
\* rejected with no handler attached.  Depending on the runtime's handling of
\* unhandled rejections the process is terminated with the error, or goes on.
TimerFiresBeforeRace ==
  /\ sup \in {"launch", "userAgent", "newPage"}
  /\ timer = "pending"
  /\ timer' = "fired"
  /\ \E crash \in BOOLEAN :
       IF crash
         THEN sup' = "crashed" /\ errorLog' = ScriptTimedOut
         ELSE UNCHANGED <<sup, errorLog>>
  /\ UNCHANGED <<argD, userToken, race, brVars, wfVars, locVars, pollVars, queryVars, notVars>>

\* runLogic has returned: process.exit().
Exit ==
  /\ sup = "done"
  /\ sup' = "exited"
  /\ UNCHANGED <<argD, userToken, timer, race, errorLog, brVars, wfVars, locVars, pollVars, queryVars, notVars>>

(* Session workflow *)

\* The awaited call e completed.
Did(e) == trace' = Append(trace, e)

\* await targetPage.setViewport(...) settles.
SetViewportSettles ==
  /\ Running /\ wf = "setViewport"
  /\ \E ok \in BOOLEAN :
       IF ok THEN Continue("goto") /\ Did(<<0, "setViewport">>)
             ELSE WorkflowRejects(Err("ProtocolError")) /\ UNCHANGED trace
  /\ UNCHANGED <<argD, userToken, brVars, step, op, locVars, pollVars, queryVars, notVars>>

\* await targetPage.goto(login page) settles; on success waitForSelectors is
\* called for the first interaction block.
GotoSettles ==
  /\ Running /\ wf = "goto"
  /\ \/ /\ \E d \in SUBSET Parts(1) : BeginLocate(1, d)
        /\ Continue("locate")
        /\ Did(<<0, "goto">>)
     \/ /\ WorkflowRejects(Err("NavigationTimeout"))
        /\ UNCHANGED <<step, op, trace, locVars>>
  /\ UNCHANGED <<argD, userToken, brVars, pollVars, queryVars, notVars>>

\* waitForSelectors: the attempt of strategy selIdx settles.  A resolved handle
\* is returned to the block, which calls scrollIntoViewIfNeeded, which calls
\* waitForConnected, which starts the poller.
LocatorAttemptSettles ==
  /\ Running /\ wf = "locate"
  /\ LET sels == Selectors(step)
         r == WaitForSelector(sels[selIdx], dom)
         verdict == LocatorNext(Len(sels), selIdx, r.ok)
     IN  /\ attempted' = Append(attempted, selIdx)
         /\ elapsed' = IF ~r.ok /\ r.error = "TimeoutError" THEN elapsed \cup {selIdx} ELSE elapsed
         /\ CASE verdict = "return" ->
                   /\ element' = r.element
                   /\ BeginPoll
                   /\ sawAttached' = FALSE
                   /\ scrolls' = 0
                   /\ intersects' = "unknown"
                   /\ Continue("connected")
                   /\ Did(<<step, "waitForSelectors">>)
                   /\ UNCHANGED selIdx
              [] verdict = "next" ->
                   /\ selIdx' = selIdx + 1
                   /\ UNCHANGED <<element, pollVars, wf, wfResult, trace, supVars>>
              [] OTHER ->
                   /\ WorkflowRejects([kind |-> "ElementNotFound", selectors |-> sels])
                   /\ UNCHANGED <<element, selIdx, trace, pollVars>>
  /\ UNCHANGED <<argD, userToken, brVars, step, op, dom, queryVars, notVars>>

\* waitForFunction: the invocation of fn in flight settles with a value.
\* A truthy value ends the poller: waitForConnected returns to
\* scrollIntoViewIfNeeded, which awaits isIntersectingViewport;
\* waitForInViewport returns to the block, which awaits its first interaction.
PredicateSettles ==
  /\ Running /\ wf \in {"connected", "inViewport"}
  /\ inFlight = 1
  /\ \E v \in PredicateValues(wf) :
       /\ pollResult' = v
       /\ inFlight' = 0
       /\ sawAttached' = (sawAttached \/ (wf = "connected" /\ v.value))
       /\ IF PollAfterResult(v) = "return"
            THEN /\ pollOutcome' = "ok"
                 /\ IF wf = "connected"
                      THEN Continue("checkViewport") /\ UNCHANGED <<op, trace>>
                      ELSE /\ Continue("act")
                           /\ op' = FirstOp(step)
                           /\ Did(<<step, "scrollIntoViewIfNeeded">>)
            ELSE UNCHANGED <<pollOutcome, wf, wfResult, supVars, op, trace>>
  /\ UNCHANGED <<argD, userToken, brVars, step, locVars, isActive, scrolls, intersects, queryVars, notVars>>

\* waitForFunction: the 100 ms pause after a falsy result ends and the loop
\* condition is tested: fn is invoked again, or 'Timed out' is thrown.
PollIntervalElapses ==
  /\ Running /\ wf \in {"connected", "inViewport"}
  /\ inFlight = 0
  /\ IF PollLoopTest(isActive) = "invoke"
       THEN /\ inFlight' = 1
            /\ UNCHANGED <<pollOutcome, wf, wfResult, supVars>>
       ELSE /\ pollOutcome' = "timedout"
            /\ WorkflowRejects(Err("PollTimedOut"))
            /\ UNCHANGED inFlight
  /\ UNCHANGED <<argD, userToken, brVars, step, op, trace, locVars, isActive, pollResult, sawAttached, scrolls, intersects, queryVars, notVars>>

\* PollDeadline with a timer callback that leaves the flag set.
PollDeadlineNoClear ==
  /\ Running /\ wf \in {"connected", "inViewport"}
  /\ isActive
  /\ UNCHANGED vars

\* waitForFunction: the timer set at its start fires and clears the flag.
PollDeadline ==
  /\ Running /\ wf \in {"connected", "inViewport"}
  /\ isActive
  /\ isActive' = FALSE
  /\ UNCHANGED <<argD, userToken, supVars, brVars, wfVars, locVars, inFlight, pollResult, pollOutcome, sawAttached, scrolls, intersects, queryVars, notVars>>

\* scrollIntoViewIfNeeded: await element.isIntersectingViewport settles.
\* true: return to the block; false: element.evaluate(scrollIntoView) is awaited.
ViewportCheckSettles ==
  /\ Running /\ wf = "checkViewport"
  /\ \/ \E isInViewport \in BOOLEAN :
          /\ intersects' = (IF isInViewport THEN "yes" ELSE "no")
          /\ IF AfterViewportCheck(isInViewport) = "return"
               THEN /\ Continue("act")
                    /\ op' = FirstOp(step)
                    /\ Did(<<step, "scrollIntoViewIfNeeded">>)
                    /\ UNCHANGED scrolls
               ELSE /\ Continue("scroll")
                    /\ scrolls' = scrolls + 1
                    /\ UNCHANGED <<op, trace>>
     \/ /\ WorkflowRejects(Err("ProtocolError"))
        /\ UNCHANGED <<op, trace, scrolls, intersects>>
  /\ UNCHANGED <<argD, userToken, brVars, step, locVars, isActive, inFlight, pollResult, pollOutcome, sawAttached, queryVars, notVars>>

\* scrollIntoViewIfNeeded: the scroll request settles; waitForInViewport
\* starts the poller.
ScrollSettles ==
  /\ Running /\ wf = "scroll"
  /\ \E ok \in BOOLEAN :
       IF ok THEN BeginPoll /\ Continue("inViewport")
             ELSE WorkflowRejects(Err("ProtocolError")) /\ UNCHANGED <<isActive, inFlight, pollResult, pollOutcome>>
  /\ UNCHANGED <<argD, userToken, brVars, step, op, trace, locVars, sawAttached, scrolls, intersects, queryVars, notVars>>

\* The interaction call awaited on the handle settles (click, el.type read,
\* type, focus, value injection, Tab down/up, waitForNavigation).  After the
\* last call of a block the next block's waitForSelectors is called; after the
\* last block page.cookies() is awaited.
ActSettles ==
  /\ Running /\ wf = "act"
  /\ \/ /\ Did(<<step, op>>)
        /\ \E t \in (IF op = "evaluateType" THEN InputTypes ELSE {"email"}) :
             LET n == NextOp(step, op, t)
             IN  CASE n # "" ->
                        /\ op' = n
                        /\ UNCHANGED <<wf, wfResult, supVars, step, locVars>>
                   [] n = "" /\ step < LastBlock ->
                        /\ \E d \in SUBSET Parts(step + 1) : BeginLocate(step + 1, d)
                        /\ Continue("locate")
                   [] OTHER ->
                        /\ Continue("cookies")
                        /\ op' = ""
                        /\ UNCHANGED <<step, locVars>>
     \/ /\ WorkflowRejects(Err(IF op = "waitForNavigation" THEN "NavigationTimeout" ELSE "ProtocolError"))
        /\ UNCHANGED <<step, op, trace, locVars>>
  /\ UNCHANGED <<argD, userToken, brVars, pollVars, queryVars, notVars>>

\* await page.cookies() settles; on success axios.get is issued.
CookiesSettles ==
  /\ Running /\ wf = "cookies"
  /\ \E ok \in BOOLEAN :
       IF ok THEN Continue("query") /\ queryCount' = queryCount + 1 /\ Did(<<0, "cookies">>)
             ELSE WorkflowRejects(Err("ProtocolError")) /\ UNCHANGED <<queryCount, trace>>
  /\ UNCHANGED <<argD, userToken, brVars, step, op, locVars, pollVars, availableDates, compared, decision, notVars>>

\* Notify without the test of the token: the push request is always issued.
NotifyNoTokenTest(msgDate) ==
  /\ notifyCalls' = notifyCalls + 1
  /\ notifyLogs' = notifyLogs + 1
  /\ notifyMsg' = msgDate
  /\ pushCount' = pushCount + 1
  /\ pushResult' = "pending"
  /\ Continue("push")
  /\ Did(<<0, "query">>)
  /\ UNCHANGED brVars

\* notify(msg, agent), up to its await: the message is logged, and the push
\* request is issued when a token is configured.  Without a token notify
\* returns and the workflow goes on to browser.close().
Notify(msgDate) ==
  /\ notifyCalls' = notifyCalls + 1
  /\ notifyLogs' = notifyLogs + 1
  /\ notifyMsg' = msgDate
  /\ IF ~userToken
       THEN /\ InvokeClose
            /\ Continue("close")
            /\ trace' = trace \o << <<0, "query">>, <<0, "notify">> >>
            /\ UNCHANGED <<pushCount, pushResult>>
       ELSE /\ pushCount' = pushCount + 1
            /\ pushResult' = "pending"
            /\ Continue("push")
            /\ Did(<<0, "query">>)
            /\ UNCHANGED brVars

\* await axios.get(...) settles.  On a response the branch on response.data
\* is taken, up to the next await: browser.close() or the push request.
QueryReturns ==
  /\ Running /\ wf = "query"
  /\ \/ /\ WorkflowRejects(Err("HttpError"))
        /\ UNCHANGED <<availableDates, compared, decision, trace, brVars, notVars>>
     \/ \E s \in SlotSeqs :
          LET d == Decide(s, NewDate(argD))
          IN  /\ availableDates' = s
              /\ decision' = d
              /\ compared' = (d # "NoSlotsAtAll")
              /\ IF d = "ScheduledEarlierFound"
                   THEN \E offset \in LocalOffsets :
                          Notify(ToDateString(NewDate(Given(s[1].date)), offset))
                   ELSE /\ InvokeClose
                        /\ Continue("close")
                        /\ Did(<<0, "query">>)
                        /\ UNCHANGED notVars
  /\ UNCHANGED <<argD, userToken, step, op, locVars, pollVars, queryCount>>

\* notify: await axios.post(...) settles.  On success notify returns and the
\* workflow invokes browser.close(); a rejection propagates out of notify and
\* out of runPuppeteerLogic.
PushSettles ==
  /\ Running /\ wf = "push"
  /\ \E ok \in BOOLEAN :
       IF ok
         THEN /\ pushResult' = "ok"
              /\ InvokeClose
              /\ Continue("close")
              /\ Did(<<0, "notify">>)
         ELSE /\ pushResult' = "failed"
              /\ WorkflowRejects(Err("NotificationDeliveryFailed"))
              /\ UNCHANGED <<brVars, trace>>
  /\ UNCHANGED <<argD, userToken, step, op, locVars, pollVars, queryVars, notifyCalls, pushCount, notifyLogs, notifyMsg>>

\* CloseSettles of a workflow whose early browser.close() is not followed by
\* a return: it runs on to the browser.close() at its end.
CloseSettlesNoReturn ==
  /\ Running /\ wf = "close"
  /\ IF decision = "NoSlotsAtAll" /\ closeCalls = 1
       THEN InvokeClose /\ UNCHANGED <<supVars, wf, wfResult, trace>>
       ELSE WorkflowFulfils /\ Did(<<0, "close">>) /\ UNCHANGED brVars
  /\ UNCHANGED <<argD, userToken, step, op, locVars, pollVars, queryVars, notVars>>

\* await browser.close() settles: runPuppeteerLogic returns, or throws.
CloseSettles ==
  /\ Running /\ wf = "close"
  /\ \E ok \in BOOLEAN :
       IF ok THEN WorkflowFulfils /\ Did(<<0, "close">>)
             ELSE WorkflowRejects(Err("ProtocolError")) /\ UNCHANGED trace
  /\ UNCHANGED <<argD, userToken, brVars, step, op, locVars, pollVars, queryVars, notVars>>

Next ==
  \/ LaunchSettles
  \/ UserAgentSettles
  \/ NewPageSettles
  \/ TimerFiresInRace
  \/ TimerFiresBeforeRace
  \/ Exit
  \/ SetViewportSettles
  \/ GotoSettles
  \/ LocatorAttemptSettles
  \/ PredicateSettles
  \/ PollIntervalElapses
  \/ PollDeadline
  \/ ViewportCheckSettles
  \/ ScrollSettles
  \/ ActSettles
  \/ CookiesSettles
  \/ QueryReturns
  \/ PushSettles
  \/ CloseSettles

Spec == Init /\ [][Next]_vars

TypeOK ==
  /\ sup \in {"launch", "userAgent", "newPage", "racing", "done", "exited", "crashed"}
  /\ timer \in {"pending", "fired"}
  /\ race \in {"none", "pending", "timer", "workflow"}
  /\ wfResult \in {"running", "fulfilled", "rejected"}
  /\ step \in 0..LastBlock
  /\ inFlight \in 0..1
  /\ closeCalls \in 0..1

\* Fairness: a pending timer fires, the awaits of the browser start-up settle
\* (puppeteer bounds them by its own launch and protocol timeouts) and
\* process.exit() follows the return of runLogic.  The awaits of the workflow
\* carry no fairness: any of them may stay pending for ever.
LiveSpec ==
  /\ Init /\ [][Next]_vars
  /\ WF_vars(TimerFiresInRace)
  /\ WF_vars(LaunchSettles)
  /\ WF_vars(UserAgentSettles)
  /\ WF_vars(NewPageSettles)
  /\ WF_vars(Exit)

\* Fairness for the poller: its timer fires, the pause ends and, as the claim
\* about it supposes, every invocation of the predicate settles.
PollSpec ==
  /\ Init /\ [][Next]_vars
  /\ WF_vars(PollDeadline)
  /\ WF_vars(PollIntervalElapses)
  /\ WF_vars(PredicateSettles)

-----------------------------------------------------------------------------
(* Outcome of a run *)

\* The process has terminated.
Terminated == sup \in {"exited", "crashed"}

\* runLogic is past its try/catch.
Ended == sup \in {"done", "exited"}

\* The Run Outcome, read from what the run logged: the timeout error, another
\* error, or the branch the workflow took.
RunOutcome ==
  IF errorLog.kind = "ScriptTimedOut" THEN "TimedOut"
  ELSE IF errorLog.kind # "none" THEN "Failed"
  ELSE decision

\* The workflow's own outcome once it has settled.
WorkflowOutcome == IF wfResult = "rejected" THEN "Failed" ELSE decision

\* Time value of the earliest slot of a non-empty response.
MinSlotDate(dates) ==
  LET ts == { NewDate(Given(dates[i].date)).t : i \in 1..Len(dates) }
  IN  [nan |-> FALSE, t |-> CHOOSE t \in ts : \A u \in ts : t <= u]

\* Indices of the strategies of block k the page d resolves.
Resolving(k, d) == { i \in 1..Len(Selectors(k)) : WaitForSelector(Selectors(k)[i], d).ok }

FirstResolving(k, d) == CHOOSE i \in Resolving(k, d) : \A j \in Resolving(k, d) : i <= j

-----------------------------------------------------------------------------
(* Claims *)

\* C1: for a non-empty response the workflow decides ScheduledEarlierFound
\* if and only if the minimum slot date is strictly earlier than the
\* threshold date, and NoEarlierAvailable otherwise.
C1_EarlierIffMinimumBeforeThreshold ==
  (decision # "none" /\ Len(availableDates) > 0) =>
    decision = (IF DateLess(MinSlotDate(availableDates), NewDate(argD))
                  THEN "ScheduledEarlierFound" ELSE "NoEarlierAvailable")

\* C2: whenever the workflow has ended, on whichever path, browser.close()
\* has been invoked.
C2_BrowserClosedOnEveryPath ==
  wfResult # "running" => closeCalls >= 1

\* C3: a failed push delivery does not change the run: it still ends as
\* ScheduledEarlierFound with the browser session closed, after a single
\* push request.
C3_PushFailureKeepsOutcome ==
  (pushResult = "failed" /\ Ended /\ race = "workflow") =>
    /\ RunOutcome = "ScheduledEarlierFound"
    /\ closeCalls = 1
    /\ pushCount = 1

C5_FirstSettledDecides ==
  Ended =>
    /\ race = "timer" =>
         /\ RunOutcome = "TimedOut"
         /\ errorLog = ScriptTimedOut
         /\ wfResult = "running"
    /\ race = "workflow" =>
         /\ wfResult # "running"
         /\ RunOutcome = WorkflowOutcome
         /\ RunOutcome # "TimedOut"

\* C5 witness: the timer won while the data query was pending.
C5_Witness ==
  sup = "exited" /\ race = "timer" /\ wf = "query" /\ RunOutcome = "TimedOut"

\* C6: an empty response is decided as NoSlotsAtAll whatever the threshold:
\* no date is compared, the notifier is not invoked, browser.close() is
\* invoked and the query is issued once.
C6_EmptyIsNoSlotsAtAll ==
  (decision # "none" /\ Len(availableDates) = 0) =>
    /\ decision = "NoSlotsAtAll"
    /\ ~compared
    /\ notifyCalls = 0 /\ pushCount = 0
    /\ closeCalls = 1
    /\ queryCount = 1
    /\ wfResult = "fulfilled" => RunOutcome = "NoSlotsAtAll"

\* C6 witness: a run with an empty response has exited.
C6_Witness ==
  sup = "exited" /\ queryCount = 1 /\ availableDates = <<>> /\ wfResult = "fulfilled"
    /\ decision = "NoSlotsAtAll"

C8_FirstResolvingStrategyWins ==
  (step >= 1 /\ wf # "locate" /\ Resolving(step, dom) # {}) =>
    LET sels == Selectors(step)
        f == FirstResolving(step, dom)
    IN  /\ element = sels[f][Len(sels[f])]
        /\ attempted = [i \in 1..f |-> i]

\* C8 witness: the second strategy resolved after the first one failed.
C8_Witness ==
  step = 1 /\ element = "#user_email" /\ attempted = <<1, 2>> /\ wf = "connected"

C10_ProceedsOnlyWhenAttached ==
  (step >= 1 /\ wf \in {"checkViewport", "scroll", "inViewport", "act"}) => sawAttached

\* C11: every call of notify writes a log line; a push request is issued by
\* a call if and only if a token is configured, once per call.
C11_NotifyLogsAndPushesIffToken ==
  /\ notifyLogs = notifyCalls
  /\ pushCount = (IF userToken THEN notifyCalls ELSE 0)

\* C11 witness: notify was called without a token and the run went on to exit.
C11_Witness ==
  notifyCalls = 1 /\ ~userToken /\ notifyLogs = 1 /\ pushCount = 0 /\ sup = "exited"

-----------------------------------------------------------------------------
(* Order of the workflow *)

IsPrefix(a, b) == Len(a) <= Len(b) /\ SubSeq(b, 1, Len(a)) = a

InTrace(e) == \E i \in 1..Len(trace) : trace[i] = e

\* The calls of an interaction block on its handle; keys: the block enters
\* text by keystrokes (otherwise by value injection).
BlockCalls(k, keys) ==
  << <<k, "waitForSelectors">>, <<k, "scrollIntoViewIfNeeded">> >> \o
  ( CASE k \in {1, 4} -> << <<k, "click">> >>
      [] k = 5 -> << <<k, "click">>, <<k, "waitForNavigation">> >>
      [] OTHER -> << <<k, "evaluateType">> >> \o
                  (IF keys THEN << <<k, "type">> >> ELSE << <<k, "focus">>, <<k, "setValue">> >>) \o
                  (IF k = 2 THEN << <<k, "keyDown">>, <<k, "keyUp">> >> ELSE << >>) )

\* The complete runs of the workflow in the order the specification fixes.
ExpectedOrders ==
  { << <<0, "setViewport">>, <<0, "goto">> >> \o
    BlockCalls(1, TRUE) \o BlockCalls(2, a) \o BlockCalls(3, b) \o BlockCalls(4, TRUE) \o BlockCalls(5, TRUE) \o
    << <<0, "cookies">>, <<0, "query">> >> \o n \o << <<0, "close">> >>
    : a \in BOOLEAN, b \in BOOLEAN, n \in { << >>, << <<0, "notify">> >> } }

\* waitForFunction is looping.
Polling == Running /\ wf \in {"connected", "inViewport"} /\ pollOutcome = "none"

\* waitForFunction is in its pause after a falsy result.
Paused == Polling /\ inFlight = 0 /\ pollResult # NoValue /\ ~Truthy(pollResult)

\* The ISO date of the earliest slot of a non-empty response.
EarliestSlot(dates) ==
  dates[CHOOSE i \in 1..Len(dates) : NewDate(Given(dates[i].date)).t = MinSlotDate(dates).t].date

\* C13: the awaited calls of the workflow complete in the one fixed order, and
\* the data query is issued only after the wait for the login navigation
\* completed.
C13_FixedStepOrder ==
  /\ \E e \in ExpectedOrders : IsPrefix(trace, e)
  /\ queryCount > 0 => InTrace(<<5, "waitForNavigation">>)
  /\ closeCalls > 0 => InTrace(<<0, "query">>)

\* C13 witness: a run that went through every step, the push included.
C13_Witness ==
  sup = "exited" /\ wfResult = "fulfilled" /\ InTrace(<<0, "notify">>) /\ InTrace(<<0, "close">>)
    /\ InTrace(<<2, "setValue">>) /\ InTrace(<<3, "type">>)

\* C14: a failing step ends the workflow at once: the error is logged, the
\* run is Failed, and from then on no step, query or notification happens.
C14_FailureEndsWorkflow ==
  /\ [](wfResult = "rejected" =>
          /\ wf = "ended" /\ Ended
          /\ errorLog.kind \notin {"none", "ScriptTimedOut"}
          /\ RunOutcome = "Failed"
          /\ errorLog.kind \in {"ElementNotFound", "PollTimedOut", "NavigationTimeout"}
               => (queryCount = 0 /\ notifyCalls = 0)
          /\ errorLog.kind = "HttpError" => (queryCount = 1 /\ notifyCalls = 0))
  /\ [][wfResult = "rejected" =>
          UNCHANGED <<wfVars, locVars, pollVars, queryVars, notVars, brVars, errorLog>>]_vars

\* C14 witness: the navigation after the login click timed out and the run exited.
C14_Witness ==
  sup = "exited" /\ wfResult = "rejected" /\ errorLog.kind = "NavigationTimeout" /\ step = 5
    /\ queryCount = 0

\* C15: the notifier is invoked exactly when the decision is
\* ScheduledEarlierFound, once, after the query returned, with a message that
\* names the earliest slot's date.
C15_NotifierIffEarlierFound ==
  /\ notifyCalls <= 1
  /\ notifyCalls = 1 <=> decision = "ScheduledEarlierFound"
  /\ notifyCalls = 1 => (InTrace(<<0, "query">>) /\ notifyMsg = EarliestSlot(availableDates))

\* C16 as stated: a run that timed out never invoked browser.close().
C16_TimedOutNeverClosed ==
  ((Ended \/ Terminated) /\ RunOutcome = "TimedOut") => closeCalls = 0

\* C16: in a run that timed out, browser.close() has been invoked exactly when
\* the timer fired while the workflow was awaiting its own browser.close();
\* the supervisor never invokes it.
C16_TimedOutClosedOnlyIfPending ==
  ((Ended \/ Terminated) /\ RunOutcome = "TimedOut") =>
    /\ closeCalls = (IF wf = "close" THEN 1 ELSE 0)
    /\ wfResult = "running"

\* C16 witness: the timer fired during the login form; the browser stays open.
C16_Witness ==
  sup = "exited" /\ RunOutcome = "TimedOut" /\ wf = "act" /\ step = 3 /\ browser = "open"
    /\ closeCalls = 0

C18_ScrollOnlyWhenNeeded ==
  /\ scrolls <= 1
  /\ scrolls = 1 <=> intersects = "no"
  /\ wf \in {"scroll", "inViewport"} => intersects = "no"
  /\ wf = "act" =>
       \/ intersects = "yes" /\ scrolls = 0 /\ pollResult.type = "object"
       \/ intersects = "no" /\ scrolls = 1 /\ pollOutcome = "ok" /\ pollResult = Bool(TRUE)
  /\ (errorLog.kind = "PollTimedOut" /\ intersects = "no") => pollResult = Bool(FALSE)

\* C18 witness: the consent checkbox was scrolled into view and then seen.
C18_Witness ==
  wf = "act" /\ step = 4 /\ intersects = "no" /\ scrolls = 1 /\ pollResult = Bool(TRUE)

\* C19: browser.close() is invoked at most once in a run, and only after the
\* decision.
C19_CloseAtMostOnce ==
  /\ closeCalls <= 1
  /\ closeCalls = 1 => (decision # "none" /\ wf \in {"close", "ended"})

\* C19 witness: a run with an empty response closed the browser and exited.
C19_Witness ==
  sup = "exited" /\ closeCalls = 1 /\ decision = "NoSlotsAtAll" /\ browser = "closed"

\* C20: the predicate is invoked once whatever the deadline; a truthy result
\* yields success even after the deadline passed; the timeout error follows
\* a falsy result.
C20_PollerInvokesAtLeastOnce ==
  /\ (Polling /\ pollResult = NoValue) => inFlight = 1
  /\ pollOutcome # "none" => pollResult # NoValue
  /\ pollOutcome = "timedout" => ~Truthy(pollResult)
  /\ (Polling /\ inFlight = 0) => ~Truthy(pollResult)

\* C20 witness: the deadline passed while the invocation that then returned
\* true was in flight.
C20_Witness ==
  pollOutcome = "ok" /\ ~isActive /\ pollResult = Bool(TRUE) /\ wf = "act"

====
